---- MODULE Spec2Model ----
(***************************************************************************)
(* Kronon: clients, soft delete and the pghistory audit trail.             *)
(*                                                                         *)
(* Specifications:                                                         *)
(*   SpecUnp   - validate_unp applied to typed strings                     *)
(*   SpecPatch - Client.patch_contact_data applied to stored dicts/patches *)
(*   SpecPage  - the paginated list endpoint over a growing client table   *)
(*   Spec      - the clients API (create / patch / delete / get / list /   *)
(*               history) over the client table and its event table        *)
(*   SpecAdmin - the admin console: ClientEventAdmin, and the ClientAdmin  *)
(*               change page with its ClientEventInline                    *)
(*   SpecLayer - the soft-delete manager, queryset and model methods       *)
(*   SpecConc  - PATCH and DELETE requests interleaved at their awaits     *)
(*   SpecExc   - exceptions leaving an endpoint and the registered         *)
(*               exception handlers                                        *)
(*   SpecCtx   - units of work (HTTP, Celery, CLI), the context attached   *)
(*               to their events, and the views showing an event's actor   *)
(***************************************************************************)
EXTENDS Integers, Sequences, FiniteSets, TLC

VARIABLES
    clients,      \* clients_client table: id -> row (all_objects)
    events,       \* clients_clientevent table, in insertion (pgh_id) order
    now,          \* last value handed out by timezone.now()
    next_id,      \* next uuid7 primary key (time-sortable, never reused)
    response,     \* last HTTP response produced by the API
    unp_input,    \* SpecUnp: the string handed to validate_unp
    unp_result,   \* SpecUnp: outcome of validate_unp(unp_input)
    ci_stored,    \* SpecPatch: Client.contact_info before the patch
    ci_patch,     \* SpecPatch: the ClientContactInfoUpdate fields explicitly set
    ci_result,    \* SpecPatch: Client.contact_info after patch_contact_data
    procs,        \* SpecConc: the requests in flight, each with its loaded client
    raised,       \* SpecExc: the exception that left the endpoint
    reply,        \* SpecExc / SpecCtx: the body or display value produced
    unit,         \* SpecCtx: the unit of work (request, task, command) that writes
    users         \* SpecCtx: ids of the user rows that still exist

vars == <<clients, events, now, next_id, response,
          unp_input, unp_result, ci_stored, ci_patch, ci_result,
          procs, raised, reply, unit, users>>

dbVars    == <<clients, events, now, next_id, response>>
unpVars   == <<unp_input, unp_result>>
patchVars == <<ci_stored, ci_patch, ci_result>>
auxVars   == <<procs, raised, reply, unit, users>>

\* The variables of the other specifications, at rest.
AuxIdle ==
    /\ procs = <<>>
    /\ raised = <<>>
    /\ reply = <<>>
    /\ unit = <<>>
    /\ users = {}

(***************************************************************************)
(* validate_unp                                                            *)
(***************************************************************************)

\* Longest string typed into validate_unp.
MaxUnpLen == 10

\* Characters for which int(c) is defined, with their value.
AsciiDigits == {"0", "1", "2", "3", "4", "5", "6", "7", "8", "9"}

\* Characters for which str.isdigit() is True but int(c) raises ValueError
\* (Unicode Numeric_Type=Digit, e.g. SUPERSCRIPT TWO).
SuperscriptDigits == {"sup2"}

\* Characters for which str.isdigit() is False.
NonDigits == {"x"}

\* Characters typed into the validator.
UnpAlphabet == {"0", "1"} \cup SuperscriptDigits \cup NonDigits

\* str.isdigit() of one character.
char_isdigit(c) == c \in AsciiDigits \cup SuperscriptDigits

\* str.isdigit(): False for the empty string, else all characters are digits.
isdigit(s) == Len(s) > 0 /\ \A i \in 1..Len(s) : char_isdigit(s[i])

\* int(c) for a character on which it is defined.
int_of(c) ==
    CASE c = "0" -> 0 [] c = "1" -> 1 [] c = "2" -> 2 [] c = "3" -> 3
      [] c = "4" -> 4 [] c = "5" -> 5 [] c = "6" -> 6 [] c = "7" -> 7
      [] c = "8" -> 8 [] c = "9" -> 9

weights == <<29, 23, 19, 17, 13, 7, 5, 3>>

RECURSIVE weighted_sum(_, _)
\* sum(digit * weight for digit, weight in zip(digits[:8], weights))
weighted_sum(digits, i) ==
    IF i = 0 THEN 0 ELSE digits[i] * weights[i] + weighted_sum(digits, i - 1)

\* validate_unp(unp): "ok" when it returns, else the exception class raised.
validate_unp(unp) ==
    IF ~isdigit(unp) \/ Len(unp) # 9 THEN "ValidationError"
    ELSE IF \E i \in 1..9 : unp[i] \notin AsciiDigits THEN "ValueError"
    ELSE LET digits    == [i \in 1..9 |-> int_of(unp[i])]
             checksum  == weighted_sum(digits, 8)
             remainder == checksum % 11
         IN  IF remainder = 10 THEN "ValidationError"
             ELSE IF remainder # digits[9] THEN "ValidationError"
             ELSE "ok"

InitUnp ==
    /\ unp_input = <<>>
    /\ unp_result = validate_unp(<<>>)
    /\ clients = <<>> /\ events = <<>> /\ now = 0 /\ next_id = 1
    /\ response = <<>>
    /\ ci_stored = <<>> /\ ci_patch = <<>> /\ ci_result = <<>>
    /\ AuxIdle

\* One more character is typed and the field validator runs on the new value.
ValidateUnp(c) ==
    /\ Len(unp_input) < MaxUnpLen
    /\ unp_input' = Append(unp_input, c)
    /\ unp_result' = validate_unp(unp_input')
    /\ UNCHANGED <<dbVars, patchVars, auxVars>>

NextUnp == \E c \in UnpAlphabet : ValidateUnp(c)

SpecUnp == InitUnp /\ [][NextUnp]_vars

\* The claim's acceptance condition, stated on digit values.
UnpDecimal(u) == Len(u) = 9 /\ \A i \in 1..9 : u[i] \in AsciiDigits

UnpChecksumOk(u) ==
    LET r == (int_of(u[1]) * 29 + int_of(u[2]) * 23 + int_of(u[3]) * 19
              + int_of(u[4]) * 17 + int_of(u[5]) * 13 + int_of(u[6]) * 7
              + int_of(u[7]) * 5 + int_of(u[8]) * 3) % 11
    IN  r # 10 /\ r = int_of(u[9])

\* C1: validate_unp accepts a string iff it is 9 digits whose weighted sum
\* mod 11 is not 10 and equals the ninth digit; every other input is rejected
\* with a ValidationError.
C1_ValidateUnpContract ==
    IF UnpDecimal(unp_input) /\ UnpChecksumOk(unp_input)
    THEN unp_result = "ok"
    ELSE unp_result = "ValidationError"

(***************************************************************************)
(* JSON values and Client.patch_contact_data                               *)
(***************************************************************************)

\* JSON / Python values of the contact_info sub-document: None, a string,
\* or a list of contact persons.
JNull == [t |-> "null", v |-> <<>>]
JStr(s) == [t |-> "str", v |-> <<s>>]
JList(l) == [t |-> "list", v |-> l]

\* Fields of ClientContactInfoUpdate (scalar fields and the contacts list).
CIKeys == {"general_email", "general_phone", "contacts"}

ContactLists == {<<>>, <<"director">>, <<"accountant", "director">>}

\* Values a validated ClientContactInfoUpdate field can hold.
CIFieldValues(k) ==
    CASE k = "general_email" -> {JNull, JStr("a@x.by")}
      [] k = "general_phone" -> {JNull, JStr("+375291234567")}
      [] k = "contacts"      -> {JNull} \cup {JList(l) : l \in ContactLists}

\* A validated ClientContactInfoUpdate: every field has a value (default
\* None); fields_set is pydantic's model_fields_set.
ClientContactInfoUpdate ==
    { [fields_set |-> fs,
       values |-> [k \in CIKeys |-> IF k \in fs THEN f[k] ELSE JNull]] :
        fs \in SUBSET CIKeys,
        f \in [general_email : CIFieldValues("general_email"),
               general_phone : CIFieldValues("general_phone"),
               contacts      : CIFieldValues("contacts")] }

\* data.model_dump(exclude_unset=True, mode="json"): the explicitly set
\* fields only, None kept.
model_dump_exclude_unset(data) == [k \in data.fields_set |-> data.values[k]]

\* data.model_dump(mode="json", exclude_none=True): every field, set or
\* defaulted, whose value is not None.
model_dump_exclude_none(data) ==
    [k \in {f \in DOMAIN data.values : data.values[f] # JNull} |-> data.values[k]]

\* A stored contact_info JSON value: a dict, or some other JSON value.
JDict(d) == [is_dict |-> TRUE, d |-> d]
JNotDict == [is_dict |-> FALSE, d |-> <<>>]

\* {**current_data, **updates}
dict_merge(current_data, updates) ==
    [k \in DOMAIN current_data \cup DOMAIN updates |->
        IF k \in DOMAIN updates THEN updates[k] ELSE current_data[k]]

\* patch_contact_data dumping with exclude_none=True: a field explicitly
\* set to None is dropped from the updates instead of overwriting.
patch_contact_data_exclude_none(contact_info, data) ==
    LET current_data == IF contact_info.is_dict THEN contact_info.d ELSE <<>>
        dumped       == model_dump_exclude_unset(data)
        updates      == [k \in {f \in DOMAIN dumped : dumped[f] # JNull} |-> dumped[k]]
    IN  IF DOMAIN updates = {} THEN contact_info
        ELSE JDict(dict_merge(current_data, updates))

\* Client.patch_contact_data(data): the new value of self.contact_info.
patch_contact_data(contact_info, data) ==
    LET current_data == IF contact_info.is_dict THEN contact_info.d ELSE <<>>
        updates      == model_dump_exclude_unset(data)
    IN  IF DOMAIN updates = {} THEN contact_info
        ELSE JDict(dict_merge(current_data, updates))

NoPatch == [fields_set |-> {}, values |-> [k \in CIKeys |-> JNull]]

InitPatch ==
    /\ ci_stored \in {JDict(<<>>), JNotDict}
    /\ ci_patch = NoPatch
    /\ ci_result = ci_stored
    /\ clients = <<>> /\ events = <<>> /\ now = 0 /\ next_id = 1
    /\ response = <<>>
    /\ unp_input = <<>> /\ unp_result = "none"
    /\ AuxIdle

\* client.patch_contact_data(data) on the value left by the previous patch.
PatchContactData(data) ==
    /\ ci_stored' = ci_result
    /\ ci_patch' = data
    /\ ci_result' = patch_contact_data(ci_result, data)
    /\ UNCHANGED <<dbVars, unpVars, auxVars>>

NextPatch == \E data \in ClientContactInfoUpdate : PatchContactData(data)

SpecPatch == InitPatch /\ [][NextPatch]_vars

\* C7: patch_contact_data merges at top level only: keys not explicitly set
\* in the patch keep their stored value, keys explicitly set take the
\* patch's value (None included), and a supplied contacts list replaces
\* the stored list as a whole.
C7_PatchTopLevelMerge ==
    LET before == IF ci_stored.is_dict THEN ci_stored.d ELSE <<>>
        fs     == ci_patch.fields_set
    IN  IF fs = {} THEN ci_result = ci_stored
        ELSE /\ ci_result.is_dict
             /\ DOMAIN ci_result.d = DOMAIN before \cup fs
             /\ \A k \in fs : ci_result.d[k] = ci_patch.values[k]
             /\ \A k \in DOMAIN before \ fs : ci_result.d[k] = before[k]

\* C7 witness: a stored dict holding an email and a two-person contacts list
\* was patched with a phone and a one-person list.
C7_Witness ==
    /\ ci_stored.is_dict
    /\ DOMAIN ci_stored.d = {"general_email", "contacts"}
    /\ ci_stored.d["contacts"] = JList(<<"accountant", "director">>)
    /\ ci_patch.fields_set = {"general_phone", "contacts"}
    /\ ci_patch.values["contacts"] = JList(<<"director">>)
    /\ ci_result.d["contacts"] = JList(<<"director">>)
    /\ ci_result.d["general_email"] = ci_stored.d["general_email"]

(***************************************************************************)
(* The client table, the soft-delete query layer and the event triggers    *)
(***************************************************************************)

\* Most client rows ever inserted in Spec.
MaxClients == 2

\* Last clock value at which Spec still accepts a write.
MaxNow == 3

\* NULL of a DateTimeField (deleted_at of a live row); the clock starts above it.
NULL_TS == 0

\* Python None where a string is expected.
PyNone == "None"

\* UNPs sent to the API: one with a correct check digit, the one used by
\* test_create_client_valid (check digit 1, weighted sum mod 11 = 3), and one
\* that is not 9 characters long.
UNP_VALID  == <<"0", "1", "0", "0", "0", "0", "0", "0", "1">>
UNP_BADSUM == <<"1", "9", "1", "1", "1", "1", "1", "1", "1">>
UNP_SHORT  == <<"1", "9", "1">>

Users == {"staff", "plain"}
ClientIds == 1..MaxClients

\* request.user.is_staff
is_staff(user) == user \in {"staff", "root"}

RECURSIVE desc_from(_, _)
\* The members of S that are <= n, largest first.
desc_from(S, n) ==
    IF n = 0 THEN <<>>
    ELSE (IF n \in S THEN <<n>> ELSE <<>>) \o desc_from(S, n - 1)

\* .order_by("-id") over a set of (positive integer) primary keys.
order_by_desc(S) ==
    IF S = {} THEN <<>>
    ELSE desc_from(S, CHOOSE x \in S : \A y \in S : y <= x)

\* SoftDeleteManager.get_queryset(): every row, soft-deleted ones included.
get_queryset(table) == DOMAIN table

\* active() without its filter.
active_unfiltered(table, qs) == qs

\* SoftDeleteQuerySet.active(): filter(deleted_at__isnull=True)
active(table, qs) == {id \in qs : table[id].deleted_at = NULL_TS}

\* SoftDeleteQuerySet.deleted(): filter(deleted_at__isnull=False)
deleted(table, qs) == {id \in qs : table[id].deleted_at # NULL_TS}

\* get_client_queryset without .active(): Client.objects alone, which
\* includes soft-deleted rows.
get_client_queryset_unfiltered(table) ==
    LET ids == order_by_desc(get_queryset(table))
    IN  [i \in 1..Len(ids) |-> table[ids[i]]]

\* get_client_queryset(): Client.objects.active()...order_by("-id"), as the
\* sequence of rows it yields.
get_client_queryset(table) ==
    LET ids == order_by_desc(active(table, get_queryset(table)))
    IN  [i \in 1..Len(ids) |-> table[ids[i]]]

\* get_client_by_id over Client.objects without .active().
get_client_by_id_unfiltered(table, client_id) ==
    LET qs == SelectSeq(get_client_queryset_unfiltered(table),
                        LAMBDA r : r.id = client_id)
    IN  IF qs = <<>> THEN <<>> ELSE <<qs[1]>>

\* get_client_by_id(client_id): .filter(id=client_id).afirst(); <<>> is None.
get_client_by_id(table, client_id) ==
    LET qs == SelectSeq(get_client_queryset(table), LAMBDA r : r.id = client_id)
    IN  IF qs = <<>> THEN <<>> ELSE <<qs[1]>>

\* Columns of clients_client tracked by the event model (all of them).
TrackedFields ==
    {"id", "name", "unp", "contact_info", "created_at", "updated_at", "deleted_at"}

\* Event rows whose id is taken from the statement's timestamp instead of
\* the table's sequence.
pgh_event_id_from_clock(evts, label, row, context, ts) ==
    Append(evts, [pgh_id |-> ts,
                  pgh_created_at |-> ts,
                  pgh_label |-> label,
                  pgh_obj_id |-> row.id,
                  pgh_data |-> row,
                  pgh_context |-> context])

\* One row appended to the event table by a pghistory trigger.
pgh_event(evts, label, row, context, ts) ==
    Append(evts, [pgh_id |-> Len(evts) + 1,
                  pgh_created_at |-> ts,
                  pgh_label |-> label,
                  pgh_obj_id |-> row.id,
                  pgh_data |-> row,
                  pgh_context |-> context])

\* The event model created without InsertEvent: an INSERT writes no event.
InsertEvent_untracked(evts, new, context, ts) == evts

\* pghistory.InsertEvent(): AFTER INSERT, snapshot of NEW.
InsertEvent(evts, new, context, ts) == pgh_event(evts, "insert", new, context, ts)

\* UpdateEvent conditioned on AnyChange(exclude_auto=True): a change of the
\* auto_now column updated_at alone writes no event.
UpdateEvent_exclude_auto(evts, old, new, context, ts) ==
    IF \E f \in TrackedFields \ {"updated_at"} : old[f] # new[f]
    THEN pgh_event(evts, "update", new, context, ts)
    ELSE evts

\* UpdateEvent with the snapshot taken from OLD instead of NEW.
UpdateEvent_snapshot_old(evts, old, new, context, ts) ==
    IF \E f \in TrackedFields : old[f] # new[f]
    THEN pgh_event(evts, "update", old, context, ts)
    ELSE evts

\* pghistory.UpdateEvent(): AFTER UPDATE when OLD.* IS DISTINCT FROM NEW.*,
\* snapshot of NEW.
UpdateEvent(evts, old, new, context, ts) ==
    IF \E f \in TrackedFields : old[f] # new[f]
    THEN pgh_event(evts, "update", new, context, ts)
    ELSE evts

\* pghistory.DeleteEvent(): AFTER DELETE (physical), snapshot of OLD.
DeleteEvent(evts, old, context, ts) == pgh_event(evts, "delete", old, context, ts)

\* with pghistory_context(user=user_id): the context attached to the write.
pghistory_context(user_id) == [user |-> user_id]

\* The events of one client, in insertion order (related_name="events").
client_events(evts, client_id) ==
    SelectSeq(evts, LAMBDA e : e.pgh_obj_id = client_id)

\* pgh_diff of the k-th event of a client's trail: the tracked fields whose
\* value differs from the previous snapshot of the same object, as
\* field -> <<old, new>>; null for the first event.
pgh_diff(trail, k) ==
    IF k = 1 THEN [is_null |-> TRUE, d |-> <<>>]
    ELSE LET prev == trail[k - 1].pgh_data
             cur  == trail[k].pgh_data
             chg  == {f \in TrackedFields : prev[f] # cur[f]}
         IN  [is_null |-> chg = {},
              d |-> [f \in chg |-> <<prev[f], cur[f]>>]]

(***************************************************************************)
(* Request schemas                                                         *)
(***************************************************************************)

\* ClientContactInfo object sent with a create request: an email and one
\* contact person, the other scalar left at its default None.
ClientContactInfo ==
    { [values |-> [general_email |-> JStr("a@x.by"), general_phone |-> JNull,
                   contacts |-> JList(<<"director">>)]] }

\* Bodies of POST /clients/.
ClientCreate ==
    [name : {"A"}, unp : {UNP_VALID, UNP_BADSUM, UNP_SHORT},
     contact_info : ClientContactInfo]

\* Field(pattern=r"^\d{9}$"): exactly nine decimal digits.
unp_pattern(unp) == Len(unp) = 9 /\ \A i \in 1..Len(unp) : unp[i] \in AsciiDigits

\* A ClientUpdate object: fields_set is model_fields_set, unset fields hold
\* their default None (contact_info: <<>> is None, else <<object>>).
ClientUpdateOf(fs, name, unp, contact_info) ==
    [fields_set |-> fs, name |-> name, unp |-> unp, contact_info |-> contact_info]

CIUpdateOf(fs, email, phone, contacts) ==
    [fields_set |-> fs,
     values |-> [general_email |-> email, general_phone |-> phone,
                 contacts |-> contacts]]

\* Bodies of PATCH /clients/{id}.
ClientUpdate ==
    { ClientUpdateOf({}, PyNone, <<>>, <<>>),
      ClientUpdateOf({"name"}, "B", <<>>, <<>>),
      ClientUpdateOf({"name"}, PyNone, <<>>, <<>>),
      ClientUpdateOf({"unp"}, PyNone, UNP_VALID, <<>>),
      ClientUpdateOf({"unp"}, PyNone, UNP_SHORT, <<>>),
      ClientUpdateOf({"contact_info"}, PyNone, <<>>,
          <<CIUpdateOf({"general_phone"}, JNull, JStr("+375291234567"), JNull)>>),
      ClientUpdateOf({"name", "contact_info"}, "A", <<>>,
          <<CIUpdateOf({"general_email", "contacts"}, JNull, JNull,
                       JList(<<"accountant", "director">>))>>) }

(***************************************************************************)
(* Responses and exception handlers                                        *)
(***************************************************************************)

Response(op, user, client_id, unp, status, code, items, count) ==
    [op |-> op, user |-> user, client_id |-> client_id, unp |-> unp,
     status |-> status, code |-> code, items |-> items, count |-> count]

\* The handlers registered on the API object: ValueError -> 400, any other
\* Exception -> 500 with a fixed body.
exception_handler(exc) ==
    IF exc = "ValueError"
    THEN [status |-> 400, code |-> "validation_error"]
    ELSE [status |-> 500, code |-> "server_error"]

\* The database's answer to INSERT/UPDATE of a row: NOT NULL on name and the
\* unique index on unp (unique=True: over every row of the table).
integrity_check(table, row) ==
    IF row.name = PyNone THEN "IntegrityError"
    ELSE IF \E id \in DOMAIN table : id # row.id /\ table[id].unp = row.unp
    THEN "IntegrityError"
    ELSE "ok"

(***************************************************************************)
(* Services and endpoints                                                  *)
(***************************************************************************)

Init ==
    /\ clients = <<>>
    /\ events = <<>>
    /\ now = NULL_TS
    /\ next_id = 1
    /\ response = Response("none", "staff", 0, <<>>, 0, "", <<>>, 0)
    /\ unp_input = <<>> /\ unp_result = "none"
    /\ ci_stored = JDict(<<>>) /\ ci_patch = NoPatch /\ ci_result = JDict(<<>>)
    /\ AuxIdle

\* create_client(data, user_id): the row built from the payload, the
\* outcome of acreate inside `with pghistory_context(user=user_id)`, and the
\* tables after it. An exception leaves both tables as they were.
create_client(table, evts, id, ts, user_id, payload) ==
    LET row == [id |-> id,
                name |-> payload.name,
                unp |-> payload.unp,
                contact_info |->
                    JDict(model_dump_exclude_none(payload.contact_info)),
                created_at |-> ts,
                updated_at |-> ts,
                deleted_at |-> NULL_TS]
        exc == integrity_check(table, row)
    IN  IF exc # "ok"
        THEN [exc |-> exc, row |-> row, clients |-> table, events |-> evts]
        ELSE [exc |-> "ok", row |-> row,
              clients |-> (id :> row) @@ table,
              events |-> InsertEvent(evts, row, pghistory_context(user_id), ts)]

\* POST /clients/ : create_client_endpoint -> create_client
create_client_endpoint(user, payload) ==
    /\ UNCHANGED <<unpVars, patchVars, auxVars>>
    /\ IF ~unp_pattern(payload.unp)
       THEN \* request body rejected by the schema
            /\ response' = Response("create", user, 0, payload.unp, 422,
                                    "unprocessable", <<>>, 0)
            /\ UNCHANGED <<clients, events, now, next_id>>
       ELSE LET out == create_client(clients, events, next_id, now + 1, user, payload)
            IN  IF out.exc # "ok"
                THEN \* acreate raised; create_client logs and re-raises
                     /\ response' = Response("create", user, 0, payload.unp,
                                             exception_handler(out.exc).status,
                                             exception_handler(out.exc).code, <<>>, 0)
                     /\ UNCHANGED <<clients, events, now, next_id>>
                ELSE /\ clients' = out.clients
                     /\ events' = out.events
                     /\ now' = now + 1
                     /\ next_id' = next_id + 1
                     /\ response' = Response("create", user, out.row.id, payload.unp,
                                             201, "", <<out.row.id>>, 0)

\* update_client with contact_info assigned like the plain fields: emptied
\* when the payload carries no contact_info patch.
update_client_object_reset_contacts(client, data) ==
    [client EXCEPT
        !.name = IF "name" \in data.fields_set THEN data.name ELSE @,
        !.unp = IF "unp" \in data.fields_set THEN data.unp ELSE @,
        !.contact_info = IF data.contact_info # <<>>
                         THEN patch_contact_data(@, data.contact_info[1])
                         ELSE JDict(<<>>)]

\* update_client, up to asave: the in-memory client after the setattr loop
\* and patch_contact_data.
update_client_object(client, data) ==
    [client EXCEPT
        !.name = IF "name" \in data.fields_set THEN data.name ELSE @,
        !.unp = IF "unp" \in data.fields_set THEN data.unp ELSE @,
        !.contact_info = IF data.contact_info # <<>>
                         THEN patch_contact_data(@, data.contact_info[1])
                         ELSE @]

\* PATCH /clients/{id} : update_client_endpoint -> update_client
update_client_endpoint(user, client_id, payload) ==
    /\ UNCHANGED <<unpVars, patchVars, auxVars, next_id>>
    /\ IF "unp" \in payload.fields_set /\ ~unp_pattern(payload.unp)
       THEN /\ response' = Response("patch", user, client_id, <<>>, 422,
                                    "unprocessable", <<>>, 0)
            /\ UNCHANGED <<clients, events, now>>
       ELSE LET found == get_client_by_id(clients, client_id)
            IN  IF found = <<>>
                THEN /\ response' = Response("patch", user, client_id, <<>>,
                                             404, "not_found", <<>>, 0)
                     /\ UNCHANGED <<clients, events, now>>
                ELSE LET ts  == now + 1
                         obj == [update_client_object(found[1], payload)
                                    EXCEPT !.updated_at = ts]
                         exc == integrity_check(clients, obj)
                     IN  IF exc # "ok"
                         THEN /\ response' =
                                    Response("patch", user, client_id, <<>>,
                                             exception_handler(exc).status,
                                             exception_handler(exc).code, <<>>, 0)
                              /\ UNCHANGED <<clients, events, now>>
                         ELSE /\ clients' = [clients EXCEPT ![client_id] = obj]
                              /\ events' = UpdateEvent(events, clients[client_id], obj,
                                                       pghistory_context(user), ts)
                              /\ now' = ts
                              /\ response' =
                                    Response("patch", user, client_id, <<>>,
                                             200, "", <<client_id>>, 0)

\* BaseModel.adelete(): deleted_at and updated_at are written; updated_at is
\* an auto_now field, re-read from the clock while saving.
adelete(row, t_deleted, t_saved) ==
    [row EXCEPT !.deleted_at = t_deleted, !.updated_at = t_saved]

\* DELETE /clients/{id} : delete_client_endpoint -> delete_client -> adelete
delete_client_endpoint(user, client_id) ==
    /\ UNCHANGED <<unpVars, patchVars, auxVars, next_id>>
    /\ LET found == get_client_by_id(clients, client_id)
       IN  IF found = <<>>
           THEN /\ response' = Response("delete", user, client_id, <<>>, 404,
                                        "not_found", <<>>, 0)
                /\ UNCHANGED <<clients, events, now>>
           ELSE \E t_saved \in {now + 1, now + 2} :
                LET t_deleted == now + 1
                    obj == adelete(clients[client_id], t_deleted, t_saved)
                IN  /\ clients' = [clients EXCEPT ![client_id] = obj]
                    /\ events' = UpdateEvent(events, clients[client_id], obj,
                                             pghistory_context(user), t_saved)
                    /\ now' = t_saved
                    /\ response' = Response("delete", user, client_id, <<>>, 204,
                                            "", <<>>, 0)

\* GET /clients/{id}
get_client(user, client_id) ==
    /\ UNCHANGED <<clients, events, now, next_id, unpVars, patchVars, auxVars>>
    /\ LET found == get_client_by_id(clients, client_id)
       IN  IF found = <<>>
           THEN response' = Response("get", user, client_id, <<>>, 404,
                                     "not_found", <<>>, 0)
           ELSE response' = Response("get", user, client_id, found[1].unp, 200,
                                     "", <<client_id>>, 0)

\* @paginate(PageNumberPagination, page_size=20)
page_size == 20

\* paginate_queryset with the offset taken as page * page_size.
paginate_queryset_offset_by_page(queryset, page) ==
    LET offset == page * page_size
        last   == IF offset + page_size < Len(queryset)
                  THEN offset + page_size ELSE Len(queryset)
    IN  [items |-> SubSeq(queryset, offset + 1, last),
         count |-> Len(queryset)]

\* PageNumberPagination.paginate_queryset: the slice
\* queryset[offset : offset + page_size] and the count of the whole queryset.
paginate_queryset(queryset, page) ==
    LET offset == (page - 1) * page_size
        last   == IF offset + page_size < Len(queryset)
                  THEN offset + page_size ELSE Len(queryset)
    IN  [items |-> SubSeq(queryset, offset + 1, last),
         count |-> Len(queryset)]

\* GET /clients/?page=p (no filter parameter given)
list_clients(user, page) ==
    /\ UNCHANGED <<clients, events, now, next_id, unpVars, patchVars, auxVars>>
    /\ LET out == paginate_queryset(get_client_queryset(clients), page)
       IN  response' = Response("list", user, page, <<>>, 200, "",
                                [i \in 1..Len(out.items) |-> out.items[i].id],
                                out.count)

\* Names that order_by() can resolve on ClientEvent: the pgh_* columns and
\* the tracked client columns.
ClientEventFields ==
    {"pgh_id", "pgh_created_at", "pgh_label", "pgh_obj", "pgh_context"}
        \cup TrackedFields

RECURSIVE sort_desc_created(_)
\* Rows of an event sequence by pgh_created_at descending.
sort_desc_created(evts) ==
    IF evts = <<>> THEN <<>>
    ELSE LET k == CHOOSE i \in 1..Len(evts) :
                    \A j \in 1..Len(evts) :
                        evts[j].pgh_created_at <= evts[i].pgh_created_at
         IN  <<evts[k]>> \o
             sort_desc_created(SubSeq(evts, 1, k - 1) \o SubSeq(evts, k + 1, Len(evts)))

\* QuerySet.order_by("-<field>") on client.events: FieldError when the name
\* does not resolve, else the rows newest first.
order_by(evts, field) ==
    IF field \notin ClientEventFields
    THEN [exc |-> "FieldError", rows |-> <<>>]
    ELSE [exc |-> "ok", rows |-> sort_desc_created(evts)]

\* get_client_history without the is_staff check.
get_client_history_no_staff_check(user, client_id) ==
    /\ UNCHANGED <<clients, events, now, next_id, unpVars, patchVars, auxVars>>
    /\ LET found == get_client_by_id(clients, client_id)
       IN  IF found = <<>>
           THEN response' = Response("history", user, client_id, <<>>, 404,
                                     "not_found", <<>>, 0)
           ELSE LET qs == order_by(client_events(events, client_id),
                                   "history_created_at")
                IN  response' =
                        Response("history", user, client_id, <<>>,
                                 exception_handler(qs.exc).status,
                                 exception_handler(qs.exc).code, <<>>, 0)

\* GET /clients/{id}/history
get_client_history(user, client_id) ==
    /\ UNCHANGED <<clients, events, now, next_id, unpVars, patchVars, auxVars>>
    /\ IF ~is_staff(user)
       THEN response' = Response("history", user, client_id, <<>>, 403,
                                 "forbidden", <<>>, 0)
       ELSE LET found == get_client_by_id(clients, client_id)
            IN  IF found = <<>>
                THEN response' = Response("history", user, client_id, <<>>, 404,
                                          "not_found", <<>>, 0)
                ELSE LET qs == order_by(client_events(events, client_id),
                                        "history_created_at")
                     IN  IF qs.exc # "ok"
                         THEN response' =
                                Response("history", user, client_id, <<>>,
                                         exception_handler(qs.exc).status,
                                         exception_handler(qs.exc).code, <<>>, 0)
                         ELSE response' =
                                Response("history", user, client_id, <<>>, 200, "",
                                         [i \in 1..Len(qs.rows) |-> qs.rows[i].pgh_id],
                                         0)

(***************************************************************************)
(* Spec: the clients API                                                   *)
(***************************************************************************)

ApiCreate(user, payload) ==
    /\ next_id <= MaxClients
    /\ now < MaxNow
    /\ create_client_endpoint(user, payload)

ApiUpdate(user, client_id, payload) ==
    /\ now < MaxNow
    /\ update_client_endpoint(user, client_id, payload)

ApiDelete(user, client_id) ==
    /\ now < MaxNow
    /\ delete_client_endpoint(user, client_id)

\* create_client(data) called with the default user_id=None by code that
\* runs outside a request. data is a ClientCreate object, so it passed the
\* schema; an exception of acreate propagates to the caller.
ServiceCreate(payload) ==
    /\ next_id <= MaxClients
    /\ now < MaxNow
    /\ unp_pattern(payload.unp)
    /\ UNCHANGED <<unpVars, patchVars, auxVars>>
    /\ LET out == create_client(clients, events, next_id, now + 1, PyNone, payload)
       IN  /\ clients' = out.clients
           /\ events' = out.events
           /\ now' = IF out.exc = "ok" THEN now + 1 ELSE now
           /\ next_id' = IF out.exc = "ok" THEN next_id + 1 ELSE next_id
           /\ response' = Response("service_create", PyNone,
                                   IF out.exc = "ok" THEN out.row.id ELSE 0,
                                   payload.unp, 0, out.exc, <<>>, 0)

\* A write request dropped by the transport before its statement commits:
\* the handler never reaches acreate / asave, nothing is written and no
\* response is produced.
ApiAbort(user, op, client_id) ==
    /\ UNCHANGED <<clients, events, now, next_id, unpVars, patchVars, auxVars>>
    /\ response' = Response(op, user, client_id, <<>>, 0, "aborted", <<>>, 0)

Next ==
    \/ \E user \in Users, payload \in ClientCreate : ApiCreate(user, payload)
    \/ \E payload \in ClientCreate : ServiceCreate(payload)
    \/ \E op \in {"create", "patch", "delete"} : ApiAbort("plain", op, 1)
    \/ \E user \in Users, client_id \in ClientIds, payload \in ClientUpdate :
            ApiUpdate(user, client_id, payload)
    \/ \E user \in Users, client_id \in ClientIds : ApiDelete(user, client_id)
    \/ \E client_id \in ClientIds : get_client("plain", client_id)
    \/ \E page \in 1..2 : list_clients("plain", page)
    \/ \E user \in Users, client_id \in ClientIds : get_client_history(user, client_id)

Spec == Init /\ [][Next]_vars

(***************************************************************************)
(* SpecPage: the list endpoint over a table grown through the API          *)
(***************************************************************************)

\* Most clients created in SpecPage (the pagination test creates 25).
MaxPageClients == 25

\* Most soft deletes performed in SpecPage.
MaxPageDeleted == 1

\* Highest page number requested in SpecPage.
MaxPage == 3

RECURSIVE nine_digits(_, _)
\* A 9-character digit string, distinct for each n < 2^9 (binary, zero-padded).
nine_digits(n, k) ==
    IF k = 0 THEN <<>>
    ELSE Append(nine_digits(n \div 2, k - 1), IF n % 2 = 1 THEN "1" ELSE "0")

\* The create request sent for the n-th client.
page_payload(n) ==
    [name |-> "A", unp |-> nine_digits(n, 9),
     contact_info |-> CHOOSE c \in ClientContactInfo : TRUE]

PageCreate ==
    /\ next_id <= MaxPageClients
    /\ create_client_endpoint("staff", page_payload(next_id))

\* Soft delete of the newest client (the first item of page 1).
PageDelete(client_id) ==
    /\ client_id = next_id - 1
    /\ client_id \in active(clients, get_queryset(clients))
    /\ Cardinality(deleted(clients, get_queryset(clients))) < MaxPageDeleted
    /\ delete_client_endpoint("staff", client_id)

PageList(page) == list_clients("plain", page)

NextPage ==
    \/ PageCreate
    \/ \E client_id \in 1..MaxPageClients : PageDelete(client_id)
    \/ \E page \in 1..MaxPage : PageList(page)

SpecPage == Init /\ [][NextPage]_vars

\* Number of active clients.
ActiveCount == Cardinality(active(clients, get_queryset(clients)))

\* The claimed size of page p for n active clients.
ClaimedPageLen(n, p) ==
    LET rest == n - 20 * (p - 1)
        pos  == IF rest > 0 THEN rest ELSE 0
    IN  IF pos < 20 THEN pos ELSE 20

\* C8: with page size 20 and N active clients, page p of the list endpoint
\* holds min(20, max(0, N - 20(p-1))) items and reports count N; the pages
\* are pairwise disjoint, hold no client twice, and together hold exactly
\* the active clients.
C8_Pagination ==
    LET qs    == get_client_queryset(clients)
        n     == Len(qs)
        ids   == [p \in 1..MaxPage |->
                    LET out == paginate_queryset(qs, p)
                    IN  {out.items[i].id : i \in 1..Len(out.items)}]
    IN  /\ n = ActiveCount
        /\ response.op = "list" =>
              /\ Len(response.items) = ClaimedPageLen(ActiveCount, response.client_id)
              /\ response.count = ActiveCount
              /\ \A i, j \in 1..Len(response.items) :
                    i # j => response.items[i] # response.items[j]
              /\ {response.items[i] : i \in 1..Len(response.items)}
                    = ids[response.client_id]
        /\ \A p, q \in 1..MaxPage : p # q => ids[p] \cap ids[q] = {}
        /\ UNION {ids[p] : p \in 1..MaxPage}
              = active(clients, get_queryset(clients))

\* C8 witness: 25 clients created, none deleted, page 2 returned 5 items
\* with count 25.
C8_Witness ==
    /\ response.op = "list"
    /\ response.client_id = 2
    /\ Cardinality(DOMAIN clients) = 25
    /\ ActiveCount = 25
    /\ Len(response.items) = 5
    /\ response.count = 25

(***************************************************************************)
(* SpecAdmin: the admin console over the client and event tables           *)
(***************************************************************************)

\* Accounts that can log in to the admin site: a superuser and a staff
\* account that was granted no model permission.
AdminUsers == {"root", "staff"}

is_superuser(user) == user = "root"

\* User.has_perm for the accounts above: a superuser holds every
\* permission, the staff account none.
has_perm(user, perm) == is_superuser(user)

\* ClientEventAdmin: has_add_permission, has_change_permission and
\* has_delete_permission all return False, and actions = None.
ClientEventAdmin_has_permission(user, op) == FALSE

ClientEventAdmin_actions == {}

\* ClientEventInline: has_add_permission returns False, can_delete = False;
\* has_change_permission is not overridden, so the inherited check of the
\* change permission on ClientEvent applies.
ClientEventInline_has_add_permission(user) == FALSE

ClientEventInline_can_delete == FALSE

ClientEventInline_has_change_permission(user) ==
    has_perm(user, "clients.change_clientevent")

ClientEventInline_readonly_fields ==
    {"pgh_created_at", "pgh_label", "user", "app_source"}

\* Columns declared editable=False on BaseModel.
NonEditableFields == {"id", "created_at", "updated_at", "deleted_at"}

\* Inputs of one inline form: the editable columns of the event model that
\* are not listed as read-only.
ClientEventInline_fields ==
    ({"pgh_label"} \cup (TrackedFields \ NonEditableFields))
        \ ClientEventInline_readonly_fields

\* What a change-page POST does to the inline rows: nothing, or a new value
\* typed into one field of the k-th event row of the client.
InlineEdits ==
    { [k |-> 0, field |-> "name", value |-> "A"] }
        \cup [k : 1..2, field : {"name", "pgh_label"}, value : {"Z"}]

\* ClientEventAdmin add / change / delete views and the changelist action
\* POST, for the event with primary key pgh_id.
ClientEventAdmin_view(user, op, pgh_id) ==
    /\ UNCHANGED <<clients, now, next_id, unpVars, patchVars, auxVars>>
    /\ IF op = "action"
       THEN \* the changelist offers no action: the POST changes nothing
            /\ events' = IF op \in ClientEventAdmin_actions
                         THEN SelectSeq(events, LAMBDA e : e.pgh_id # pgh_id)
                         ELSE events
            /\ response' = Response("admin_event_action", user, pgh_id, <<>>,
                                    200, "", <<>>, 0)
       ELSE IF ~ClientEventAdmin_has_permission(user, op)
       THEN /\ events' = events
            /\ response' = Response("admin_event_" \o op, user, pgh_id, <<>>,
                                    403, "forbidden", <<>>, 0)
       ELSE /\ events' = SelectSeq(events, LAMBDA e : e.pgh_id # pgh_id)
            /\ response' = Response("admin_event_" \o op, user, pgh_id, <<>>,
                                    200, "", <<>>, 0)

\* save_formset of ClientEventInline over the event rows the change page
\* was rendered with: the changed inline form is saved when the inline
\* grants the change permission and the field is one of its inputs.
ClientEventInline_save(evts, rendered, user, edit) ==
    IF /\ edit.k \in 1..Len(rendered)
       /\ ClientEventInline_has_change_permission(user)
       /\ edit.field \in ClientEventInline_fields
    THEN [evts EXCEPT ![rendered[edit.k].pgh_id].pgh_data[edit.field] = edit.value]
    ELSE evts

\* ClientAdmin change view, POST: permission check, lookup through the
\* default manager, validation of the client form and of every inline form
\* (full_clean runs the field validators), save_model, then save_related.
ClientAdmin_change_view(user, client_id, edit) ==
    /\ UNCHANGED <<next_id, unpVars, patchVars, auxVars>>
    /\ IF ~has_perm(user, "clients.change_client")
       THEN /\ response' = Response("admin_client_change", user, client_id, <<>>,
                                    403, "forbidden", <<>>, 0)
            /\ UNCHANGED <<clients, events, now>>
       ELSE IF client_id \notin get_queryset(clients)
       THEN /\ response' = Response("admin_client_change", user, client_id, <<>>,
                                    302, "not_found", <<>>, 0)
            /\ UNCHANGED <<clients, events, now>>
       ELSE IF \/ validate_unp(clients[client_id].unp) # "ok"
               \/ \E k \in 1..Len(client_events(events, client_id)) :
                     validate_unp(client_events(events, client_id)[k].pgh_data.unp)
                        # "ok"
       THEN /\ response' = Response("admin_client_change", user, client_id, <<>>,
                                    200, "form_errors", <<>>, 0)
            /\ UNCHANGED <<clients, events, now>>
       ELSE LET ts  == now + 1
                obj == [clients[client_id] EXCEPT !.updated_at = ts]
                saved == UpdateEvent(events, clients[client_id], obj,
                                     pghistory_context(user), ts)
            IN  /\ clients' = [clients EXCEPT ![client_id] = obj]
                /\ events' = ClientEventInline_save(saved, client_events(events, client_id),
                                                     user, edit)
                /\ now' = ts
                /\ response' = Response("admin_client_change", user, client_id,
                                        <<>>, 302, "", <<client_id>>, 0)

AdminClientChange(user, client_id, edit) ==
    /\ now < MaxNow
    /\ ClientAdmin_change_view(user, client_id, edit)

NextAdmin ==
    \/ \E payload \in ClientCreate : ApiCreate("staff", payload)
    \/ \E client_id \in ClientIds : ApiDelete("staff", client_id)
    \/ \E user \in AdminUsers, op \in {"add", "change", "delete", "action"},
          pgh_id \in 1..2 : ClientEventAdmin_view(user, op, pgh_id)
    \/ \E user \in AdminUsers, client_id \in ClientIds, edit \in InlineEdits :
          AdminClientChange(user, client_id, edit)

SpecAdmin == Init /\ [][NextAdmin]_vars

(***************************************************************************)
(* SpecLayer: the soft-delete manager, queryset and model methods called   *)
(* directly (shell, management command, task) on a table grown by the API  *)
(***************************************************************************)

\* The context of a write made outside every pghistory_context block.
no_context == [user |-> PyNone]

\* The querysets the operations are called on: Client.objects, .active() or
\* .deleted(), narrowed with filter(id__in=ids).
QuerySetBases == {"objects", "active", "deleted"}

queryset(table, base, ids) ==
    LET qs == get_queryset(table) \cap ids
    IN  IF base = "active" THEN active(table, qs)
        ELSE IF base = "deleted" THEN deleted(table, qs)
        ELSE qs

RECURSIVE update_deleted_at(_, _, _, _, _)
\* QuerySet.update(deleted_at=value) over the rows ids (a sequence): one
\* UPDATE statement at time ts; the row-level update trigger runs for each
\* row. update() does not touch the auto_now column updated_at.
update_deleted_at(db, ids, value, context, ts) ==
    IF ids = <<>> THEN db
    ELSE LET id  == Head(ids)
             old == db.clients[id]
             new == [old EXCEPT !.deleted_at = value]
         IN  update_deleted_at(
                 [clients |-> [db.clients EXCEPT ![id] = new],
                  events |-> UpdateEvent(db.events, old, new, context, ts)],
                 Tail(ids), value, context, ts)

RECURSIVE sql_delete(_, _, _, _)
\* models.QuerySet.delete() / models.Model.delete(): the rows are removed;
\* the row-level delete trigger runs for each row. Events are not collected
\* with the parent (on_delete=DO_NOTHING, db_constraint=False).
sql_delete(db, ids, context, ts) ==
    IF ids = <<>> THEN db
    ELSE LET id == Head(ids)
         IN  sql_delete(
                 [clients |-> [k \in DOMAIN db.clients \ {id} |-> db.clients[k]],
                  events |-> DeleteEvent(db.events, db.clients[id], context, ts)],
                 Tail(ids), context, ts)

\* SoftDeleteQuerySet.delete() that calls the parent's delete().
SoftDeleteQuerySet_delete_physical(db, ids, ts) ==
    [db |-> sql_delete(db, ids, no_context, ts), count |-> Len(ids)]

\* SoftDeleteQuerySet.delete(): update(deleted_at=timezone.now()); returns
\* the number of rows the UPDATE matched.
SoftDeleteQuerySet_delete(db, ids, ts) ==
    [db |-> update_deleted_at(db, ids, ts, no_context, ts), count |-> Len(ids)]

\* SoftDeleteQuerySet.hard_delete(): super().delete()
SoftDeleteQuerySet_hard_delete(db, ids, ts) ==
    [db |-> sql_delete(db, ids, no_context, ts), count |-> Len(ids)]

\* SoftDeleteQuerySet.restore(): update(deleted_at=None)
SoftDeleteQuerySet_restore(db, ids, ts) ==
    [db |-> update_deleted_at(db, ids, NULL_TS, no_context, ts), count |-> Len(ids)]

\* arestore that saves without clearing deleted_at.
arestore_stale(row, t_saved) ==
    [row EXCEPT !.updated_at = t_saved]

\* BaseModel.arestore(): deleted_at = None and updated_at are saved.
arestore(row, t_saved) ==
    [row EXCEPT !.deleted_at = NULL_TS, !.updated_at = t_saved]

\* A bulk operation on Client.objects[.active()|.deleted()].filter(id__in=ids)
QuerySetOp(op, base, ids) ==
    /\ now < MaxNow
    /\ UNCHANGED <<next_id, unpVars, patchVars, auxVars>>
    /\ LET ts   == now + 1
           rows == order_by_desc(queryset(clients, base, ids))
           db   == [clients |-> clients, events |-> events]
           out  == IF op = "delete" THEN SoftDeleteQuerySet_delete(db, rows, ts)
                   ELSE IF op = "hard_delete"
                   THEN SoftDeleteQuerySet_hard_delete(db, rows, ts)
                   ELSE SoftDeleteQuerySet_restore(db, rows, ts)
       IN  /\ clients' = out.db.clients
           /\ events' = out.db.events
           /\ now' = ts
           /\ response' = Response("qs_" \o op, PyNone, 0, <<>>, 0, base,
                                   order_by_desc(ids), out.count)

\* A single-object operation on an instance loaded through all_objects.
ModelOp(op, client_id) ==
    /\ now < MaxNow
    /\ client_id \in DOMAIN clients
    /\ UNCHANGED <<next_id, unpVars, patchVars, auxVars>>
    /\ \E t_saved \in {now + 1, now + 2} :
       LET old == clients[client_id]
           db  == [clients |-> clients, events |-> events]
       IN  /\ IF op = "ahard_delete"
              THEN /\ clients' = sql_delete(db, <<client_id>>, no_context, t_saved).clients
                   /\ events' = sql_delete(db, <<client_id>>, no_context, t_saved).events
              ELSE LET obj == IF op = "adelete"
                              THEN adelete(old, now + 1, t_saved)
                              ELSE arestore(old, t_saved)
                   IN  /\ clients' = [clients EXCEPT ![client_id] = obj]
                       /\ events' = UpdateEvent(events, old, obj, no_context, t_saved)
          /\ now' = t_saved
          /\ response' = Response(op, PyNone, client_id, <<>>, 0, "",
                                  <<client_id>>, IF op = "arestore" THEN 0 ELSE 1)

\* Evaluating Client.objects.all(), Client.objects.active() or
\* Client.objects.deleted().
ManagerQuery(base) ==
    /\ UNCHANGED <<clients, events, now, next_id, unpVars, patchVars, auxVars>>
    /\ response' = Response("query", PyNone, 0, <<>>, 0, base,
                            order_by_desc(queryset(clients, base, ClientIds)), 0)

NextLayer ==
    \/ \E payload \in ClientCreate : ApiCreate("staff", payload)
    \/ \E op \in {"delete", "hard_delete", "restore"}, base \in QuerySetBases,
          ids \in SUBSET ClientIds : QuerySetOp(op, base, ids)
    \/ \E op \in {"adelete", "ahard_delete", "arestore"}, client_id \in ClientIds :
          ModelOp(op, client_id)
    \/ \E base \in QuerySetBases : ManagerQuery(base)

SpecLayer == Init /\ [][NextLayer]_vars

(***************************************************************************)
(* SpecConc: PATCH and DELETE requests on the event loop, interleaved at   *)
(* their awaits (lookup, save, refresh)                                    *)
(***************************************************************************)

\* Requests served in SpecConc.
MaxProcs == 2

\* Clients created in SpecConc.
MaxConcClients == 1

Procs == 1..MaxProcs

\* Bodies of the PATCH requests in flight: two patches of disjoint fields.
ConcUpdates ==
    { ClientUpdateOf({"name"}, "B", <<>>, <<>>),
      ClientUpdateOf({"unp"}, PyNone, UNP_BADSUM, <<>>) }

\* A request: its position (pc), the client object it loaded (<<>> while
\* none), the clock values it read, whether its write statement committed,
\* and the status it answered (0 while in flight).
IdleProc ==
    [op |-> "none", pc |-> "idle", client_id |-> 0,
     payload |-> ClientUpdateOf({}, PyNone, <<>>, <<>>),
     obj |-> <<>>, t_now |-> 0, t_saved |-> 0, saved |-> FALSE,
     status |-> 0, code |-> ""]

InitConc ==
    /\ clients = <<>>
    /\ events = <<>>
    /\ now = NULL_TS
    /\ next_id = 1
    /\ response = Response("none", "staff", 0, <<>>, 0, "", <<>>, 0)
    /\ unp_input = <<>> /\ unp_result = "none"
    /\ ci_stored = JDict(<<>>) /\ ci_patch = NoPatch /\ ci_result = JDict(<<>>)
    /\ procs = [p \in Procs |-> IdleProc]
    /\ raised = <<>> /\ reply = <<>> /\ unit = <<>> /\ users = {}

ConcCreate(payload) ==
    /\ next_id <= MaxConcClients
    /\ unp_pattern(payload.unp)
    /\ create_client_endpoint("staff", payload)
    /\ UNCHANGED procs

\* update_client_endpoint / delete_client_endpoint up to the first await
\* after the lookup: `client = await get_client_by_id(client_id)`, 404 when
\* it is None; for PATCH the setattr loop and patch_contact_data then run on
\* the loaded object.
ReqLookup(p, op, client_id, payload) ==
    /\ procs[p].pc = "idle"
    /\ UNCHANGED <<dbVars, unpVars, patchVars, raised, reply, unit, users>>
    /\ LET found == get_client_by_id(clients, client_id)
           req   == [IdleProc EXCEPT !.op = op, !.client_id = client_id,
                                     !.payload = payload]
       IN  procs' = [procs EXCEPT ![p] =
                IF found = <<>>
                THEN [req EXCEPT !.pc = "done", !.status = 404, !.code = "not_found"]
                ELSE [req EXCEPT !.pc = "loaded",
                                 !.obj = IF op = "patch"
                                         THEN <<update_client_object(found[1], payload)>>
                                         ELSE found]]

\* The clock reads that precede the statement: adelete takes
\* now = timezone.now() for deleted_at, and the auto_now field updated_at is
\* read from the clock again by pre_save when asave builds the UPDATE.
ReqStamp(p) ==
    /\ procs[p].pc = "loaded"
    /\ UNCHANGED <<clients, events, next_id, response, unpVars, patchVars,
                   raised, reply, unit, users>>
    /\ \E t_saved \in {now + 1, now + 2} :
          /\ procs[p].op = "patch" => t_saved = now + 1
          /\ now' = t_saved
          /\ procs' = [procs EXCEPT ![p].pc = "stamped",
                                    ![p].t_now = now + 1,
                                    ![p].t_saved = t_saved]

\* asave() of update_client: no update_fields, so the UPDATE writes every
\* column from the loaded object.
asave_all_fields(stored, obj, payload, t_saved) ==
    [obj EXCEPT !.updated_at = t_saved]

\* asave(update_fields=["deleted_at", "updated_at"]) of adelete: the UPDATE
\* writes these two columns of the stored row.
asave_update_fields(stored, obj, t_deleted, t_saved) ==
    adelete(stored, t_deleted, t_saved)

\* The UPDATE statement of the request commits (or raises).
ReqSave(p) ==
    /\ procs[p].pc = "stamped"
    /\ UNCHANGED <<now, next_id, response, unpVars, patchVars,
                   raised, reply, unit, users>>
    /\ LET r   == procs[p]
           id  == r.client_id
           new == IF r.op = "patch"
                  THEN asave_all_fields(clients[id], r.obj[1], r.payload, r.t_saved)
                  ELSE asave_update_fields(clients[id], r.obj[1], r.t_now, r.t_saved)
           exc == integrity_check(clients, new)
       IN  IF exc # "ok"
           THEN /\ procs' = [procs EXCEPT ![p].pc = "done",
                                 ![p].status = exception_handler(exc).status,
                                 ![p].code = exception_handler(exc).code]
                /\ UNCHANGED <<clients, events>>
           ELSE /\ clients' = [clients EXCEPT ![id] = new]
                /\ events' = UpdateEvent(events, clients[id], new,
                                         pghistory_context("staff"), r.t_saved)
                /\ procs' = [procs EXCEPT
                        ![p].saved = TRUE,
                        ![p].pc = IF r.op = "patch" THEN "saved" ELSE "done",
                        ![p].status = IF r.op = "patch" THEN 0 ELSE 204]

\* update_client after asave: the refresh through get_client_by_id, and
\* RuntimeError("Client not found after update") when it returns None.
ReqRefresh(p) ==
    /\ procs[p].pc = "saved"
    /\ UNCHANGED <<dbVars, unpVars, patchVars, raised, reply, unit, users>>
    /\ LET found == get_client_by_id(clients, procs[p].client_id)
           exc   == IF found = <<>> THEN "RuntimeError" ELSE "ok"
       IN  procs' = [procs EXCEPT
                ![p].pc = "done",
                ![p].status = IF exc = "ok" THEN 200 ELSE exception_handler(exc).status,
                ![p].code = IF exc = "ok" THEN "" ELSE exception_handler(exc).code]

NextConc ==
    \/ \E payload \in ClientCreate : ConcCreate(payload)
    \/ \E p \in Procs, client_id \in 1..MaxConcClients, payload \in ConcUpdates :
            ReqLookup(p, "patch", client_id, payload)
    \/ \E p \in Procs, client_id \in 1..MaxConcClients :
            ReqLookup(p, "delete", client_id, IdleProc.payload)
    \/ \E p \in Procs : ReqStamp(p)
    \/ \E p \in Procs : ReqSave(p)
    \/ \E p \in Procs : ReqRefresh(p)

SpecConc == InitConc /\ [][NextConc]_vars

(***************************************************************************)
(* SpecExc: exceptions escaping an endpoint and the handlers registered on *)
(* the API object                                                          *)
(***************************************************************************)

\* Responses kept for comparison.
MaxReplies == 2

\* Exception classes with their method resolution order.
mro(type) ==
    CASE type = "Exception"      -> <<"Exception">>
      [] type = "RuntimeError"   -> <<"RuntimeError", "Exception">>
      [] type = "KeyError"       -> <<"KeyError", "LookupError", "Exception">>
      [] type = "IntegrityError" -> <<"IntegrityError", "DatabaseError", "Exception">>
      [] type = "ValueError"     -> <<"ValueError", "Exception">>
      [] type = "UnicodeError"   -> <<"UnicodeError", "ValueError", "Exception">>

ExcTypes ==
    {"Exception", "RuntimeError", "KeyError", "IntegrityError", "ValueError",
     "UnicodeError"}

\* str(exc) of the exceptions raised.
ExcTexts == {"", "UNIQUE constraint failed: clients.unp", "password=hunter2"}

Exceptions == [type : ExcTypes, text : ExcTexts]

\* @api.exception_handler(ValueError)
value_error_handler(exc) ==
    [status |-> 400, message |-> exc.text, code |-> "validation_error"]

\* The catch-all handler answering with str(exc).
internal_server_error_handler_echo(exc) ==
    [status |-> 500, message |-> exc.text, code |-> "server_error"]

\* @api.exception_handler(Exception)
internal_server_error_handler(exc) ==
    [status |-> 500, message |-> "Internal Server Error", code |-> "server_error"]

\* The classes with a handler registered in config/api.py.
registered == {"ValueError", "Exception"}

\* The handler lookup: the first class of the exception's MRO that has a
\* registered handler.
lookup_exception_handler(exc) ==
    LET m == mro(exc.type)
        k == CHOOSE i \in 1..Len(m) :
                /\ m[i] \in registered
                /\ \A j \in 1..(i - 1) : m[j] \notin registered
    IN  m[k]

on_exception(exc) ==
    IF lookup_exception_handler(exc) = "ValueError"
    THEN value_error_handler(exc)
    ELSE internal_server_error_handler(exc)

\* An endpoint raises.
Raise(exc) ==
    /\ raised = <<>>
    /\ Len(reply) < MaxReplies
    /\ raised' = <<exc>>
    /\ UNCHANGED <<dbVars, unpVars, patchVars, next_id, response, procs, reply,
                   unit, users>>

\* The API object answers the request whose endpoint raised.
Handle ==
    /\ raised # <<>>
    /\ reply' = Append(reply, [exc |-> raised[1], body |-> on_exception(raised[1])])
    /\ raised' = <<>>
    /\ UNCHANGED <<dbVars, unpVars, patchVars, next_id, response, procs,
                   unit, users>>

NextExc ==
    \/ \E exc \in Exceptions : Raise(exc)
    \/ Handle

SpecExc == Init /\ [][NextExc]_vars

(***************************************************************************)
(* SpecCtx: units of work (HTTP request, Celery task, management command), *)
(* the context they attach to the events written inside them, and the two  *)
(* views that show an event's actor                                        *)
(***************************************************************************)

\* Events written in SpecCtx.
MaxCtxEvents == 2

\* dict.get(key): <<value>>, or <<>> when the key is absent.
dict_get(d, key) == IF key \in DOMAIN d THEN <<d[key]>> ELSE <<>>

\* str.split(",")[0] of a string given as its characters.
RECURSIVE split_first(_)
split_first(str) ==
    IF str = <<>> \/ Head(str) = "," THEN <<>>
    ELSE <<Head(str)>> \o split_first(Tail(str))

\* " ".join(words), words and result given as token sequences.
RECURSIVE join(_)
join(words) ==
    IF words = <<>> THEN <<>>
    ELSE IF Len(words) = 1 THEN words[1]
    ELSE words[1] \o <<" ">> \o join(Tail(words))

\* str.startswith
startswith(word, prefix) ==
    /\ Len(prefix) <= Len(word)
    /\ SubSeq(word, 1, Len(prefix)) = prefix

\* The user table: ids of the users that exist, and a user's email.
UserIds == {"u1"}

email_of(user_id) == user_id \o "@kronon.by"

\* HTTP requests: the X-Forwarded-For header (<<>> when absent, else its
\* characters), REMOTE_ADDR, the method, request.user as the middleware sees
\* it (PyNone when anonymous) and the user the endpoint authenticated.
HttpRequests ==
    [kind : {"http"},
     xff : {<<>>, << <<>> >>, << <<"1">> >>, << <<"1", ",", "2">> >>},
     remote : {<<"9">>},
     method : {"PATCH"},
     path : {"/api/clients/1"},
     user : {PyNone} \cup UserIds,
     auth : UserIds]

CeleryTasks == [kind : {"celery"}, name : {"clients.sync"}]

\* sys.argv of manage.py invocations, each word as its tokens.
CliRuns ==
    [kind : {"cli"},
     argv : { << <<"manage.py">> >>,
              << <<"manage.py">>, <<"runserver">> >>,
              << <<"manage.py">>, <<"runserver", "_plus">> >>,
              << <<"manage.py">>, <<"migrate">> >>,
              << <<"manage.py">>, <<"makemigrations">> >>,
              << <<"manage.py">>, <<"test">> >>,
              << <<"manage.py">>, <<"test", "server">> >>,
              << <<"manage.py">>, <<"init_superuser">>, <<"--force">> >> }]

Units == HttpRequests \cup CeleryTasks \cup CliRuns

\* KrononHistoryMiddleware.get_context taking the last forwarded address.
get_context_last_forwarded(request) ==
    LET base == [user |-> request.user, url |-> request.path]
        ip   == IF request.xff # <<>> /\ request.xff[1] # <<>>
                THEN <<request.xff[1][Len(request.xff[1])]>>
                ELSE request.remote
    IN  dict_merge(base,
            [app_source |-> "API/Web", ip_address |-> ip,
             method |-> request.method,
             user_email |-> IF request.user # PyNone
                            THEN email_of(request.user) ELSE PyNone])

\* KrononHistoryMiddleware.get_context
get_context(request) ==
    LET base == [user |-> request.user, url |-> request.path]
        ip   == IF request.xff # <<>> /\ request.xff[1] # <<>>
                THEN split_first(request.xff[1])
                ELSE request.remote
    IN  dict_merge(base,
            [app_source |-> "API/Web", ip_address |-> ip,
             method |-> request.method,
             user_email |-> IF request.user # PyNone
                            THEN email_of(request.user) ELSE PyNone])

\* The project's MIDDLEWARE setting lists KrononHistoryMiddleware, so every
\* HTTP request runs inside pghistory.context(**get_context(request)).
HistoryMiddleware_call(request) == <<get_context(request)>>

\* PghistoryTask.__call__
PghistoryTask_call(task) ==
    <<[app_source |-> "Celery", celery_task |-> task.name]>>

\* manage.py main(): the context of the command, <<>> for the ExitStack.
main(argv) ==
    IF /\ Len(argv) > 1
       /\ ~startswith(argv[2], <<"runserver">>)
       /\ argv[2] \notin {<<"migrate">>, <<"makemigrations">>, <<"test">>}
    THEN <<[app_source |-> "CLI", command |-> join(Tail(argv))]>>
    ELSE <<>>

unit_context(u) ==
    CASE u.kind = "http"   -> HistoryMiddleware_call(u)
      [] u.kind = "celery" -> PghistoryTask_call(u)
      [] u.kind = "cli"    -> main(u.argv)

\* Entering `with pghistory_context(**inner)` inside the context `outer`:
\* the keys are added to the ambient context, or start one.
context_enter(outer, inner) ==
    IF outer = <<>> THEN <<inner>> ELSE <<dict_merge(outer[1], inner)>>

InitCtx ==
    /\ clients = <<>>
    /\ events = <<>>
    /\ now = NULL_TS
    /\ next_id = 1
    /\ response = Response("none", "staff", 0, <<>>, 0, "", <<>>, 0)
    /\ unp_input = <<>> /\ unp_result = "none"
    /\ ci_stored = JDict(<<>>) /\ ci_patch = NoPatch /\ ci_result = JDict(<<>>)
    /\ procs = <<>> /\ raised = <<>> /\ reply = <<>> /\ unit = <<>>
    /\ users = UserIds

\* A unit of work starts.
UnitBegin(u) ==
    /\ unit = <<>>
    /\ Len(events) < MaxCtxEvents
    /\ unit' = <<[of |-> u, context |-> unit_context(u)]>>
    /\ reply' = <<>>
    /\ UNCHANGED <<dbVars, unpVars, patchVars, procs, raised, users>>

\* A tracked write inside the unit: through a service (inside
\* `with pghistory_context(user=user_id)`) or straight through the ORM.  The
\* trigger stores the ambient context with the event.
UnitWrite(via) ==
    /\ unit # <<>>
    /\ Len(events) < MaxCtxEvents
    /\ unit[1].of.kind = "http" => via = "service"
    /\ LET u       == unit[1].of
           user_id == IF u.kind = "http" THEN u.auth ELSE PyNone
           ctx     == IF via = "service"
                      THEN context_enter(unit[1].context, [user |-> user_id])
                      ELSE unit[1].context
           ts      == now + 1
           payload == [name |-> "A", unp |-> UNP_VALID,
                       contact_info |-> CHOOSE c \in ClientContactInfo : TRUE]
           row     == create_client(<<>>, <<>>, next_id, ts, user_id, payload).row
       IN  IF clients = <<>>
           THEN /\ clients' = (next_id :> row)
                /\ events' = InsertEvent(events, row, ctx, ts)
                /\ next_id' = next_id + 1
           ELSE /\ clients' = [clients EXCEPT ![1].updated_at = ts]
                /\ events' = UpdateEvent(events, clients[1], clients'[1], ctx, ts)
                /\ UNCHANGED next_id
    /\ now' = now + 1
    /\ reply' = <<>>
    /\ UNCHANGED <<response, unpVars, patchVars, procs, raised, unit, users>>

UnitEnd ==
    /\ unit # <<>>
    /\ unit' = <<>>
    /\ reply' = <<>>
    /\ UNCHANGED <<dbVars, unpVars, patchVars, procs, raised, users>>

\* A user row is removed; the events that reference it stay
\* (on_delete=DO_NOTHING, db_constraint=False).
UserDelete(user_id) ==
    /\ unit = <<>>
    /\ user_id \in users
    /\ users' = users \ {user_id}
    /\ reply' = <<>>
    /\ UNCHANGED <<dbVars, unpVars, patchVars, procs, raised, unit>>

\* The proxy fields of ClientEvent: a key of pgh_context, None without it.
ProxyField(event, key) ==
    IF event.pgh_context = <<>> \/ key \notin DOMAIN event.pgh_context[1]
    THEN PyNone
    ELSE event.pgh_context[1][key]

\* ClientEventAdmin.get_user_info; the user proxy is joined to the user
\* table (LEFT JOIN), so obj.user is None once the user row is gone.
get_user_info(obj, user_table) ==
    LET user_id == ProxyField(obj, "user")
    IN  IF user_id # PyNone /\ user_id \in user_table
        THEN <<"full_name_rus", email_of(user_id)>>
        ELSE IF ProxyField(obj, "user_email") # PyNone
             THEN <<"Udalen", ProxyField(obj, "user_email")>>
             ELSE <<"System / Unknown">>

HistoryContextFields ==
    {"user", "email", "app_source", "ip_address", "method", "url",
     "celery_task", "command"}

\* Validation of a dict against HistoryContextMetadata: each declared field
\* is read from the key of the same name, default None (<<>> here).
HistoryContextMetadata(data) ==
    [f \in HistoryContextFields |-> dict_get(data, f)]

\* get_client_history_list: the dict built for one event, with pgh_context
\* validated as ClientHistoryOut declares it.
ClientHistoryOut(event) ==
    LET context_data == IF event.pgh_context # <<>>
                        THEN <<[metadata |-> event.pgh_context[1]]>>
                        ELSE <<>>
    IN  [pgh_id |-> event.pgh_id,
         pgh_label |-> event.pgh_label,
         pgh_context |-> IF context_data = <<>> THEN <<>>
                         ELSE <<HistoryContextMetadata(context_data[1])>>]

get_client_history_list(evts, client_id) ==
    LET T == sort_desc_created(client_events(evts, client_id))
    IN  [i \in 1..Len(T) |-> ClientHistoryOut(T[i])]

\* The admin change list renders the actor column of an event.
AdminShow(i) ==
    /\ unit = <<>>
    /\ i \in 1..Len(events)
    /\ reply' = <<[view |-> "admin", pgh_id |-> i,
                   actor |-> get_user_info(events[i], users)]>>
    /\ UNCHANGED <<dbVars, unpVars, patchVars, procs, raised, unit, users>>

\* The history read model of a client is produced.
HistoryRead(client_id) ==
    /\ unit = <<>>
    /\ client_id \in DOMAIN clients
    /\ reply' = <<[view |-> "history", client_id |-> client_id,
                   items |-> get_client_history_list(events, client_id)]>>
    /\ UNCHANGED <<dbVars, unpVars, patchVars, procs, raised, unit, users>>

NextCtx ==
    \/ \E u \in Units : UnitBegin(u)
    \/ \E via \in {"service", "orm"} : UnitWrite(via)
    \/ UnitEnd
    \/ \E user_id \in UserIds : UserDelete(user_id)
    \/ \E i \in 1..MaxCtxEvents : AdminShow(i)
    \/ \E client_id \in ClientIds : HistoryRead(client_id)

SpecCtx == InitCtx /\ [][NextCtx]_vars

(***************************************************************************)
(* Properties of Spec                                                      *)
(***************************************************************************)

BusinessFields == {"name", "unp", "contact_info"}

business(row) == [f \in BusinessFields |-> row[f]]

\* The set of the elements of a sequence.
Range(seq) == {seq[i] : i \in 1..Len(seq)}

\* The rows whose UNP equals unp.
RowsWithUnp(table, unp) == {id \in DOMAIN table : table[id].unp = unp}

\* C2: a create request whose UNP is already used by a non-deleted client is
\* answered 409 with code duplicate_unp, and leaves the client rows and the
\* audit events unchanged.
C2_DuplicateUnpIs409 ==
    [][ ( /\ response'.op = "create"
          /\ \E id \in RowsWithUnp(clients, response'.unp) :
                clients[id].deleted_at = NULL_TS )
        => ( /\ response'.status = 409
             /\ response'.code = "duplicate_unp"
             /\ clients' = clients
             /\ events' = events ) ]_vars

\* C3: a create request whose UNP was used before only by soft-deleted
\* clients succeeds and yields a new active client with that UNP.
C3_ReuseUnpOfSoftDeleted ==
    [][ ( /\ response'.op = "create"
          /\ RowsWithUnp(clients, response'.unp) # {}
          /\ \A id \in RowsWithUnp(clients, response'.unp) :
                clients[id].deleted_at # NULL_TS )
        => ( /\ response'.status = 201
             /\ response'.client_id \in DOMAIN clients' \ DOMAIN clients
             /\ clients'[response'.client_id].unp = response'.unp
             /\ clients'[response'.client_id].deleted_at = NULL_TS ) ]_vars

\* C4: every stored client's UNP passes validate_unp, and no two non-deleted
\* clients share a UNP.
C4_StoredUnpValidAndUnique ==
    /\ \A id \in DOMAIN clients : validate_unp(clients[id].unp) = "ok"
    /\ \A a, b \in active(clients, get_queryset(clients)) :
          a # b => clients[a].unp # clients[b].unp

\* The ids on any page of the list endpoint.
ListedIds(table) ==
    LET qs == get_client_queryset(table)
    IN  UNION { LET out == paginate_queryset(qs, p)
                IN  {out.items[i].id : i \in 1..Len(out.items)} : p \in 1..2 }

\* C5: a soft-deleted client is returned neither by the list endpoint nor by
\* get-by-id, while its row stays in the table (all_objects) and every event
\* written before the soft delete is still in the event table.
C5_SoftDeletedHiddenButKept ==
    [][ /\ \A id \in deleted(clients', DOMAIN clients') :
              /\ get_client_by_id(clients', id) = <<>>
              /\ id \notin ListedIds(clients')
        /\ (response'.op = "delete" /\ response'.status = 204) =>
              /\ response'.client_id \in deleted(clients', DOMAIN clients')
              /\ DOMAIN clients' = DOMAIN clients
              /\ Len(events') >= Len(events)
              /\ SubSeq(events', 1, Len(events)) = events
        /\ (response'.op \in {"get", "list"}) =>
              /\ clients' = clients
              /\ events' = events ]_vars

\* C5 witness: get-by-id of a soft-deleted client answered 404 while its row
\* and its events are still stored.
C5_Witness ==
    /\ response.op = "get"
    /\ response.status = 404
    /\ response.client_id \in DOMAIN clients
    /\ clients[response.client_id].deleted_at # NULL_TS
    /\ Len(client_events(events, response.client_id)) >= 2

C9_HistoryForbiddenForNonStaff ==
    (response.op = "history" /\ ~is_staff(response.user)) =>
        (response.status = 403 /\ response.items = <<>>)

\* C9 witness: a non-staff caller asked for the history of an existing
\* client that has events and got 403.
C9_Witness ==
    /\ response.op = "history"
    /\ ~is_staff(response.user)
    /\ response.status = 403
    /\ get_client_by_id(clients, response.client_id) # <<>>
    /\ client_events(events, response.client_id) # <<>>

\* C10: for a staff caller and an existing non-deleted client the history
\* endpoint answers 200 with exactly that client's events, strictly newest
\* first.
C10_HistoryForStaffNewestFirst ==
    ( /\ response.op = "history"
      /\ is_staff(response.user)
      /\ get_client_by_id(clients, response.client_id) # <<>> )
    => LET T == client_events(events, response.client_id)
       IN  /\ response.status = 200
           /\ Len(response.items) = Len(T)
           /\ {response.items[i] : i \in 1..Len(response.items)}
                = {T[i].pgh_id : i \in 1..Len(T)}
           /\ \A i, j \in 1..Len(response.items) :
                i < j => events[response.items[i]].pgh_created_at
                            > events[response.items[j]].pgh_created_at

C12_AuditLogAppendOnly ==
    [][ /\ Len(events') >= Len(events)
        /\ SubSeq(events', 1, Len(events)) = events ]_vars

\* A step committed a mutation of client id: its row was inserted, removed
\* or changed.
Mutated(id) ==
    \/ (id \in DOMAIN clients) # (id \in DOMAIN clients')
    \/ (id \in DOMAIN clients /\ id \in DOMAIN clients' /\ clients[id] # clients'[id])

C14_SoftDeleteEventIsLabelledDelete ==
    [][ (response'.op = "delete" /\ response'.status = 204) =>
            LET id == response'.client_id
                T  == client_events(events, id)
                T2 == client_events(events', id)
            IN  /\ id \in DOMAIN clients'
                /\ clients'[id].deleted_at # NULL_TS
                /\ Len(events') = Len(events) + 1
                /\ Len(T2) = Len(T) + 1
                /\ T2[Len(T2)].pgh_label = "delete" ]_vars

\* C17: a write made outside any tracked boundary (create_client called
\* with user_id=None outside a request) succeeds and appends its event with
\* a null actor, and the history endpoint then answers a staff caller 200
\* with that client's events, the one with the null context included.
C17_NullContextWrittenAndReported ==
    [][ /\ (response'.op = "service_create" /\ response'.code = "ok") =>
              /\ Len(events') = Len(events) + 1
              /\ events'[Len(events')].pgh_obj_id = response'.client_id
              /\ events'[Len(events')].pgh_context.user = PyNone
        /\ ( /\ response'.op = "history"
             /\ is_staff(response'.user)
             /\ get_client_by_id(clients, response'.client_id) # <<>>
             /\ \E k \in 1..Len(events) :
                   /\ events[k].pgh_obj_id = response'.client_id
                   /\ events[k].pgh_context.user = PyNone )
           => ( /\ response'.status = 200
                /\ Range(response'.items) =
                      {e.pgh_id : e \in Range(client_events(events, response'.client_id))} )
      ]_vars

\* The client id of a request names no row or a soft-deleted row.
AbsentOrDeleted(id) ==
    id \notin DOMAIN clients \/ clients[id].deleted_at # NULL_TS

\* C20 (as claimed): the get, patch and delete endpoints answer 404 whenever
\* the client id is absent or names a soft-deleted client, and then write
\* nothing: rows (deleted_at included) and events are unchanged.
C20_NotFoundWithoutWrite ==
    [][ ( /\ response'.op \in {"get", "patch", "delete"}
          /\ response'.code # "aborted"
          /\ AbsentOrDeleted(response'.client_id) )
        => ( /\ response'.status = 404
             /\ clients' = clients
             /\ events' = events ) ]_vars

\* C20 (amended): for a request that passes schema validation the get, patch
\* and delete endpoints answer 404 whenever the client id is absent or names
\* a soft-deleted client; a patch whose body fails validation is answered
\* 422 before the lookup; in both cases nothing is written.
C20_NotFoundWithoutWriteWhenValid ==
    [][ ( /\ response'.op \in {"get", "patch", "delete"}
          /\ response'.code # "aborted"
          /\ AbsentOrDeleted(response'.client_id) )
        => ( /\ response'.status \in {404, 422}
             /\ response'.status = 422 => response'.op = "patch"
             /\ clients' = clients
             /\ events' = events ) ]_vars

\* C20 witness: DELETE of an already soft-deleted client was answered 404,
\* and the client still has only its insert event and the event of its one
\* soft delete.
C20_Witness ==
    /\ response.op = "delete"
    /\ response.status = 404
    /\ response.client_id \in DOMAIN clients
    /\ clients[response.client_id].deleted_at # NULL_TS
    /\ Len(client_events(events, response.client_id)) = 2

C15_HardDeleteLeavesTrailUntouched ==
    [][ response'.op \in {"qs_hard_delete", "ahard_delete"} => events' = events ]_vars

PatchesDone(id) ==
    { p \in Procs : /\ procs[p].op = "patch" /\ procs[p].client_id = id
                    /\ procs[p].pc = "done" /\ procs[p].status = 200 }

\* Requests on client id other than p and q that got past the lookup.
OtherWriters(id, p, q) ==
    { r \in Procs \ {p, q} : /\ procs[r].client_id = id
                             /\ procs[r].pc # "idle"
                             /\ procs[r].status # 404 }

\* C21: two concurrent PATCH requests of the same client serialize: once
\* both have answered 200 (and nothing else wrote the client), the stored
\* row's business fields are those of the two updates applied to the
\* created row in one of the two sequential orders.
C21_ConcurrentPatchesSerialize ==
    \A id \in DOMAIN clients :
        \A p \in PatchesDone(id), q \in PatchesDone(id) :
            (p # q /\ OtherWriters(id, p, q) = {}) =>
                LET base == client_events(events, id)[1].pgh_data
                    pq == update_client_object(
                              update_client_object(base, procs[p].payload),
                              procs[q].payload)
                    qp == update_client_object(
                              update_client_object(base, procs[q].payload),
                              procs[p].payload)
                IN  business(clients[id]) \in {business(pq), business(qp)}

\* C22: a service operation either commits its write and succeeds, or
\* raises with nothing written: no request answers with an error status
\* after its write statement committed.
C22_NoFailureAfterCommit ==
    \A p \in Procs :
        (procs[p].pc = "done" /\ procs[p].status >= 400) => ~procs[p].saved

\* The event of greatest id in a non-empty list of events.
newest_by_id(T) ==
    CHOOSE e \in Range(T) : \A f \in Range(T) : f.pgh_id <= e.pgh_id

C27_DeletedStaysDeleted ==
    [][\A id \in DOMAIN clients :
            clients[id].deleted_at # NULL_TS => clients'[id].deleted_at # NULL_TS]_vars

\* C29: the save of a soft delete writes deleted_at and updated_at only,
\* both with the same instant, and leaves every other stored field as it is,
\* fields changed by another request since the load included.
C29_SoftDeleteWritesTwoFieldsSameInstant ==
    [][\A p \in Procs :
            (procs[p].op = "delete" /\ procs[p].pc = "stamped"
                /\ procs'[p].pc = "done" /\ procs'[p].saved) =>
                LET id == procs[p].client_id
                IN  /\ clients'[id].deleted_at = clients'[id].updated_at
                    /\ \A f \in DOMAIN clients[id] \ {"deleted_at", "updated_at"} :
                            clients'[id][f] = clients[id][f]]_vars

\* The rows a restore step acted on.
Restored(resp, table) ==
    IF resp.op = "arestore" THEN {resp.client_id}
    ELSE IF resp.op = "qs_restore" THEN queryset(table, resp.code, Range(resp.items))
    ELSE {}

\* C30: soft delete followed by restore is a round trip: a restore (arestore
\* or queryset restore) leaves its rows with deleted_at null and returned
\* again by active() and get-by-id; soft deletes and restores keep every
\* row's business fields, which so stay those of the created row; and every
\* row is in exactly one of active() and deleted().
C30_SoftDeleteRestoreRoundTrip ==
    [][ /\ \A id \in Restored(response', clients) :
              /\ id \in DOMAIN clients'
              /\ clients'[id].deleted_at = NULL_TS
              /\ id \in active(clients', get_queryset(clients'))
              /\ get_client_by_id(clients', id) = <<clients'[id]>>
        /\ \A id \in DOMAIN clients' :
              /\ id \in DOMAIN clients => business(clients'[id]) = business(clients[id])
              /\ business(clients'[id]) =
                    business(client_events(events', id)[1].pgh_data)
              /\ (id \in active(clients', get_queryset(clients')))
                    # (id \in deleted(clients', get_queryset(clients'))) ]_vars

\* A client was soft-deleted with adelete and then restored with arestore:
\* its trail is insert, update (deleted), update (restored) and it is active.
C30_Witness ==
    /\ response.op = "arestore"
    /\ LET id == response.client_id
           T  == client_events(events, id)
       IN  /\ id \in DOMAIN clients
           /\ Len(T) = 3
           /\ T[1].pgh_data.deleted_at = NULL_TS
           /\ T[2].pgh_data.deleted_at # NULL_TS
           /\ clients[id].deleted_at = NULL_TS
           /\ get_client_by_id(clients, id) # <<>>

(***************************************************************************)
(* Properties of SpecExc                                                   *)
(***************************************************************************)

\* Exceptions that are no validation, integrity or ValueError failure.
Unexpected(exc) ==
    /\ "ValueError" \notin Range(mro(exc.type))
    /\ exc.type # "IntegrityError"

ResolvedEmail(event, user_table) ==
    LET user_id == ProxyField(event, "user")
        snap    == ProxyField(event, "user_email")
    IN  IF user_id # PyNone /\ user_id \in user_table THEN <<email_of(user_id)>>
        ELSE IF snap # PyNone THEN <<snap>>
        ELSE <<>>

\* The admin column shows the resolved actor.
C24_AdminActorPreference ==
    (reply # <<>> /\ reply[1].view = "admin") =>
        LET want == ResolvedEmail(events[reply[1].pgh_id], users)
            got  == reply[1].actor
        IN  IF want = <<>> THEN got = <<"System / Unknown">>
            ELSE Len(got) = 2 /\ got[2] = want[1]

\* C24: the actor shown for an event is the live user's email when the user
\* still exists, else the email snapshot of the event context when present,
\* else a system/unknown placeholder; and the history read model exposes
\* the email for an event written by an authenticated user.
C24_ActorResolvedAndExposed ==
    /\ C24_AdminActorPreference
    /\ (reply # <<>> /\ reply[1].view = "history") =>
            LET T == sort_desc_created(client_events(events, reply[1].client_id))
            IN  \A i \in 1..Len(T) :
                    ProxyField(T[i], "user_email") # PyNone =>
                        /\ reply[1].items[i].pgh_context # <<>>
                        /\ reply[1].items[i].pgh_context[1].email =
                                <<ProxyField(T[i], "user_email")>>

\* The first entry of a comma-separated header value.
IsFirstEntry(ip, header) ==
    /\ "," \notin Range(ip)
    /\ Len(ip) <= Len(header)
    /\ SubSeq(header, 1, Len(ip)) = ip
    /\ (Len(ip) = Len(header) \/ header[Len(ip) + 1] = ",")

\* The tokens of a sequence of words, in order.
RECURSIVE Flatten(_)
Flatten(words) ==
    IF words = <<>> THEN <<>> ELSE Head(words) \o Flatten(Tail(words))

\* Management commands that are not tracked.
Untracked(argv) ==
    \/ Len(argv) < 2
    \/ argv[2][1] = "runserver"
    \/ argv[2] \in {<<"migrate">>, <<"makemigrations">>, <<"test">>}

\* C25: every event carries the channel of the unit of work that wrote it:
\* HTTP request -> app_source API/Web, the client IP (first X-Forwarded-For
\* entry, else REMOTE_ADDR) and the method; Celery task -> app_source Celery
\* and the task name; management command -> app_source CLI and the command
\* string, except runserver*, migrate, makemigrations and test, whose events
\* carry no channel.
C25_EventsCarryChannel ==
    [][Len(events') > Len(events) =>
        LET e == events'[Len(events')]
            u == unit[1].of
        IN  CASE u.kind = "http" ->
                    /\ ProxyField(e, "app_source") = "API/Web"
                    /\ ProxyField(e, "method") = u.method
                    /\ IF u.xff # <<>> /\ u.xff[1] # <<>>
                       THEN IsFirstEntry(ProxyField(e, "ip_address"), u.xff[1])
                       ELSE ProxyField(e, "ip_address") = u.remote
              [] u.kind = "celery" ->
                    /\ ProxyField(e, "app_source") = "Celery"
                    /\ ProxyField(e, "celery_task") = u.name
              [] u.kind = "cli" ->
                    IF Untracked(u.argv)
                    THEN /\ ProxyField(e, "app_source") = PyNone
                         /\ ProxyField(e, "command") = PyNone
                    ELSE /\ ProxyField(e, "app_source") = "CLI"
                         /\ LET cmd == ProxyField(e, "command")
                                w   == Tail(u.argv)
                            IN  /\ SelectSeq(cmd, LAMBDA t : t # " ") = Flatten(w)
                                /\ Len(cmd) = Len(Flatten(w)) + Len(w) - 1]_vars

\* An event was written during an HTTP request that came through a proxy
\* chain of two addresses, and one during a tracked management command with
\* an argument.
C25_Witness ==
    /\ Len(events) = 2
    /\ \E i \in 1..2 :
            /\ ProxyField(events[i], "app_source") = "API/Web"
            /\ ProxyField(events[i], "ip_address") = <<"1">>
    /\ \E i \in 1..2 :
            /\ ProxyField(events[i], "app_source") = "CLI"
            /\ ProxyField(events[i], "command") = <<"init_superuser", " ", "--force">>

====
